---- MODULE Spec2Model ----
(***************************************************************************)
(* Model of the kitties pallet (pallets/kitties/src/lib.rs).               *)
(*                                                                         *)
(* State: the two storage items (Kitties, NextKittyId) and the deposited   *)
(* events.  `last` records the most recent dispatched call, its arguments, *)
(* the environment values it read and its DispatchResult, so that the      *)
(* outcome of a call is observable in the state.                           *)
(*                                                                         *)
(* Scaling: the counter type u32 is modelled with the largest value        *)
(* U32Max (a bound) instead of 4294967295, so that the overflow branch of  *)
(* checked_add is reachable from the empty storage.  blake2_128 is         *)
(* modelled by a deterministic, injective function of its payload.         *)
(***************************************************************************)
EXTENDS Integers, Sequences, FiniteSets, TLC

\* ---------------------------------------------------------------- bounds
\* largest value of the identifier type (stands for u32::MAX)
U32Max == 3

\* ------------------------------------------------------ program constants
\* Kitty(pub [u8; 16])
GenomeLen == 16
\* u8
ByteMod == 256

\* T::AccountId: two callers, so that an id can exist under another owner
Accounts == {1, 2}
\* the values of the u32 identifier type
KittyIds == 0..U32Max
\* what a call reads from its environment: random_seed() and extrinsic_index()
Environments == {[seed |-> 0, idx |-> 0], [seed |-> 1, idx |-> 1]}
Positions == 0..(GenomeLen - 1)

\* Option<T>: None is the empty sequence, Some(x) the one-element sequence.
\* Kitties (OptionQuery) holds the 16-byte array itself, or None when absent.
None == <<>>
Some(x) == <<x>>
unwrap(opt) == opt[1]

\* origins of a dispatched call: Signed(who) or an unsigned origin
Origins == [signed : {TRUE}, who : Accounts] \cup {[signed |-> FALSE, who |-> 0]}

VARIABLES Kitties, NextKittyId, events, last

vars == <<Kitties, NextKittyId, events, last>>

\* ------------------------------------------------------------ u8 bit ops
RECURSIVE BitAnd(_, _)
BitAnd(x, y) ==
    IF x = 0 \/ y = 0 THEN 0
    ELSE (x % 2) * (y % 2) + 2 * BitAnd(x \div 2, y \div 2)

RECURSIVE BitOr(_, _)
BitOr(x, y) ==
    IF x = 0 THEN y
    ELSE IF y = 0 THEN x
    ELSE (IF (x % 2) + (y % 2) > 0 THEN 1 ELSE 0) + 2 * BitOr(x \div 2, y \div 2)

\* `!` on a u8
BitNot(x) == (ByteMod - 1) - x

\* ------------------------------------------------------------ Kitty::gender
\* variant: the trait is the first byte itself, the `% 2` forgotten
gender_whole_byte(kitty) == kitty[0]

\* variant: the last byte of the array is read instead of the first
gender_last_byte(kitty) == IF kitty[GenomeLen - 1] % 2 = 0 THEN "Male" ELSE "Female"

gender(kitty) == IF kitty[0] % 2 = 0 THEN "Male" ELSE "Female"

\* ------------------------------------------------------------ randomness
\* SCALE encoding of the payload tuple (seed, &sender, extrinsic_index):
\* the fields side by side, injective in the three components
PayloadCode(seed, who, idx) == (seed * 4 + who) * 4 + idx

\* payload.using_encoded(blake2_128): 16 bytes, a function of the payload only
Blake2_128(seed, who, idx) ==
    [i \in Positions |->
        ((PayloadCode(seed, who, idx) + 1) * (2 * i + 37)
            + i * PayloadCode(seed, who, idx)) % ByteMod]

\* ------------------------------------------------------------ arithmetic
\* variant: wrapping_add instead of checked_add
checked_add_wrapping(n) == Some((n + 1) % (U32Max + 1))

\* variant: saturating_add instead of checked_add
checked_add_saturating(n) == IF n + 1 > U32Max THEN Some(U32Max) ELSE Some(n + 1)

\* variant: the overflow test is off by one
checked_add_early(n) == IF n + 1 >= U32Max THEN None ELSE Some(n + 1)

\* u32::checked_add(n, 1): None on overflow
checked_add(n) == IF n + 1 > U32Max THEN None ELSE Some(n + 1)

\* ------------------------------------------------------------ breeding rule
\* variant: the two parents swapped in the combination
new_dna_swapped(selector, kitty1_dna, kitty2_dna) ==
    [i \in Positions |->
        BitOr(BitAnd(selector[i], kitty2_dna[i]),
              BitAnd(BitNot(selector[i]), kitty1_dna[i]))]

\* variant: the `!` on the selector is missing
new_dna_no_not(selector, kitty1_dna, kitty2_dna) ==
    [i \in Positions |->
        BitOr(BitAnd(selector[i], kitty1_dna[i]),
              BitAnd(selector[i], kitty2_dna[i]))]

\* the loop of breed: new_dna[i] = (selector[i] & dna1[i]) | (!selector[i] & dna2[i])
new_dna(selector, kitty1_dna, kitty2_dna) ==
    [i \in Positions |->
        BitOr(BitAnd(selector[i], kitty1_dna[i]),
              BitAnd(BitNot(selector[i]), kitty2_dna[i]))]

\* ------------------------------------------------------------ storage
\* variant: the first key (the owner) is ignored, the map is keyed by id alone
insert_any_owner(map, who, id, kitty) ==
    [k \in DOMAIN map |-> IF k[2] = id THEN kitty ELSE map[k]]

\* variant: an existing value is kept (insert-if-absent)
insert_if_absent(map, who, id, kitty) ==
    IF map[<<who, id>>] = None THEN [map EXCEPT ![<<who, id>>] = kitty] ELSE map

\* StorageDoubleMap::insert: writes the value under the key, unconditionally
insert(map, who, id, kitty) == [map EXCEPT ![<<who, id>>] = kitty]

\* variant: the lookup ignores the owner and finds the id under any account
kitties_any_owner(who, id) ==
    IF \E a \in Accounts : Kitties[<<a, id>>] # None
    THEN Kitties[<<CHOOSE a \in Accounts : Kitties[<<a, id>>] # None, id>>]
    ELSE None

\* the getter Self::kitties(&who, id)
kitties(who, id) == Kitties[<<who, id>>]

Call(op, who, id1, id2, seed, idx, result) ==
    [op |-> op, who |-> who, id1 |-> id1, id2 |-> id2,
     seed |-> seed, idx |-> idx, result |-> result]

Init ==
    /\ Kitties = [k \in Accounts \X KittyIds |-> None]
    /\ NextKittyId = 0
    /\ events = <<>>
    /\ last = Call("none", 0, 0, 0, 0, 0, "none")

\* ------------------------------------------------------------ create
\* variant: the event carries the counter after the increment
create_event_next_id(origin) ==
    IF ~origin.signed
    THEN \* ensure_signed(origin)?
         /\ last' = Call("create", 0, 0, 0, 0, 0, "BadOrigin")
         /\ UNCHANGED <<Kitties, NextKittyId, events>>
    ELSE LET sender == origin.who
             current_id == NextKittyId
             next_id == checked_add(NextKittyId)
         IN  IF next_id = None
             THEN \* try_mutate: the closure returned Err, nothing is written
                  /\ last' = Call("create", sender, 0, 0, 0, 0, "Overflow")
                  /\ UNCHANGED <<Kitties, NextKittyId, events>>
             ELSE \E env \in Environments :
                    LET seed == env.seed
                        idx == env.idx
                        dna == Blake2_128(seed, sender, idx)
                        kitty == dna
                    IN  /\ Kitties' = insert(Kitties, sender, current_id, kitty)
                        /\ events' = Append(events,
                               [kind |-> "KittyCreated", who |-> sender,
                                id |-> unwrap(next_id), kitty |-> kitty])
                        /\ NextKittyId' = unwrap(next_id)
                        /\ last' = Call("create", sender, 0, 0, seed, idx, "Ok")

create(origin) ==
    IF ~origin.signed
    THEN \* ensure_signed(origin)?
         /\ last' = Call("create", 0, 0, 0, 0, 0, "BadOrigin")
         /\ UNCHANGED <<Kitties, NextKittyId, events>>
    ELSE LET sender == origin.who
             current_id == NextKittyId
             next_id == checked_add(NextKittyId)
         IN  IF next_id = None
             THEN \* try_mutate: the closure returned Err, nothing is written
                  /\ last' = Call("create", sender, 0, 0, 0, 0, "Overflow")
                  /\ UNCHANGED <<Kitties, NextKittyId, events>>
             ELSE \E env \in Environments :
                    LET seed == env.seed
                        idx == env.idx
                        dna == Blake2_128(seed, sender, idx)
                        kitty == dna
                    IN  /\ Kitties' = insert(Kitties, sender, current_id, kitty)
                        /\ events' = Append(events,
                               [kind |-> "KittyCreated", who |-> sender,
                                id |-> current_id, kitty |-> kitty])
                        /\ NextKittyId' = unwrap(next_id)
                        /\ last' = Call("create", sender, 0, 0, seed, idx, "Ok")

\* ------------------------------------------------------------ breed
\* variant: the identifier is reserved before the gender check
breed_early_reserve(origin, kitty_id_1, kitty_id_2) ==
    IF ~origin.signed
    THEN /\ last' = Call("breed", 0, kitty_id_1, kitty_id_2, 0, 0, "BadOrigin")
         /\ UNCHANGED <<Kitties, NextKittyId, events>>
    ELSE LET sender == origin.who
             kitty1 == kitties(sender, kitty_id_1)
             kitty2 == kitties(sender, kitty_id_2)
         IN  IF kitty1 = None \/ kitty2 = None
             THEN /\ last' = Call("breed", sender, kitty_id_1, kitty_id_2, 0, 0,
                                  "InvalidKittyId")
                  /\ UNCHANGED <<Kitties, NextKittyId, events>>
             ELSE IF gender(kitty1) = gender(kitty2)
             THEN /\ last' = Call("breed", sender, kitty_id_1, kitty_id_2, 0, 0,
                                  "SameGender")
                  /\ NextKittyId' = IF checked_add(NextKittyId) = None
                                    THEN NextKittyId
                                    ELSE unwrap(checked_add(NextKittyId))
                  /\ UNCHANGED <<Kitties, events>>
             ELSE LET kitty_id == NextKittyId
                      next_id == checked_add(NextKittyId)
                  IN  IF next_id = None
                      THEN /\ last' = Call("breed", sender, kitty_id_1, kitty_id_2,
                                           0, 0, "Overflow")
                           /\ UNCHANGED <<Kitties, NextKittyId, events>>
                      ELSE \E env \in Environments :
                             LET seed == env.seed
                                 idx == env.idx
                                 selector == Blake2_128(seed, sender, idx)
                                 new_kitty == new_dna(selector, kitty1, kitty2)
                             IN  /\ Kitties' = insert(Kitties, sender, kitty_id, new_kitty)
                                 /\ events' = Append(events,
                                        [kind |-> "KittyBred", who |-> sender,
                                         id |-> kitty_id, kitty |-> new_kitty])
                                 /\ NextKittyId' = unwrap(next_id)
                                 /\ last' = Call("breed", sender, kitty_id_1,
                                                 kitty_id_2, seed, idx, "Ok")

\* variant: the ensure! on the genders is missing
breed_no_gender_check(origin, kitty_id_1, kitty_id_2) ==
    IF ~origin.signed
    THEN /\ last' = Call("breed", 0, kitty_id_1, kitty_id_2, 0, 0, "BadOrigin")
         /\ UNCHANGED <<Kitties, NextKittyId, events>>
    ELSE LET sender == origin.who
             kitty1 == kitties(sender, kitty_id_1)
             kitty2 == kitties(sender, kitty_id_2)
         IN  IF kitty1 = None \/ kitty2 = None
             THEN /\ last' = Call("breed", sender, kitty_id_1, kitty_id_2, 0, 0,
                                  "InvalidKittyId")
                  /\ UNCHANGED <<Kitties, NextKittyId, events>>
             ELSE IF FALSE
             THEN /\ last' = Call("breed", sender, kitty_id_1, kitty_id_2, 0, 0,
                                  "SameGender")
                  /\ UNCHANGED <<Kitties, NextKittyId, events>>
             ELSE LET kitty_id == NextKittyId
                      next_id == checked_add(NextKittyId)
                  IN  IF next_id = None
                      THEN /\ last' = Call("breed", sender, kitty_id_1, kitty_id_2,
                                           0, 0, "Overflow")
                           /\ UNCHANGED <<Kitties, NextKittyId, events>>
                      ELSE \E env \in Environments :
                             LET seed == env.seed
                                 idx == env.idx
                                 selector == Blake2_128(seed, sender, idx)
                                 new_kitty == new_dna(selector, kitty1, kitty2)
                             IN  /\ Kitties' = insert(Kitties, sender, kitty_id, new_kitty)
                                 /\ events' = Append(events,
                                        [kind |-> "KittyBred", who |-> sender,
                                         id |-> kitty_id, kitty |-> new_kitty])
                                 /\ NextKittyId' = unwrap(next_id)
                                 /\ last' = Call("breed", sender, kitty_id_1,
                                                 kitty_id_2, seed, idx, "Ok")

breed(origin, kitty_id_1, kitty_id_2) ==
    IF ~origin.signed
    THEN /\ last' = Call("breed", 0, kitty_id_1, kitty_id_2, 0, 0, "BadOrigin")
         /\ UNCHANGED <<Kitties, NextKittyId, events>>
    ELSE LET sender == origin.who
             kitty1 == kitties(sender, kitty_id_1)
             kitty2 == kitties(sender, kitty_id_2)
         IN  IF kitty1 = None \/ kitty2 = None
             THEN /\ last' = Call("breed", sender, kitty_id_1, kitty_id_2, 0, 0,
                                  "InvalidKittyId")
                  /\ UNCHANGED <<Kitties, NextKittyId, events>>
             ELSE IF gender(kitty1) = gender(kitty2)
             THEN /\ last' = Call("breed", sender, kitty_id_1, kitty_id_2, 0, 0,
                                  "SameGender")
                  /\ UNCHANGED <<Kitties, NextKittyId, events>>
             ELSE LET kitty_id == NextKittyId
                      next_id == checked_add(NextKittyId)
                  IN  IF next_id = None
                      THEN /\ last' = Call("breed", sender, kitty_id_1, kitty_id_2,
                                           0, 0, "Overflow")
                           /\ UNCHANGED <<Kitties, NextKittyId, events>>
                      ELSE \E env \in Environments :
                             LET seed == env.seed
                                 idx == env.idx
                                 selector == Blake2_128(seed, sender, idx)
                                 new_kitty == new_dna(selector, kitty1, kitty2)
                             IN  /\ Kitties' = insert(Kitties, sender, kitty_id, new_kitty)
                                 /\ events' = Append(events,
                                        [kind |-> "KittyBred", who |-> sender,
                                         id |-> kitty_id, kitty |-> new_kitty])
                                 /\ NextKittyId' = unwrap(next_id)
                                 /\ last' = Call("breed", sender, kitty_id_1,
                                                 kitty_id_2, seed, idx, "Ok")

Next ==
    \/ \E origin \in Origins : create(origin)
    \/ \E origin \in Origins, kitty_id_1 \in KittyIds, kitty_id_2 \in KittyIds :
           breed(origin, kitty_id_1, kitty_id_2)

Spec == Init /\ [][Next]_vars

TypeOK ==
    /\ NextKittyId \in KittyIds
    /\ \A k \in Accounts \X KittyIds :
          Kitties[k] = None \/ DOMAIN Kitties[k] = Positions

\* ------------------------------------------------------------ store alone
\* The storage call Kitties::<T>::insert(&who, id, &kitty) applied on its own,
\* to keys and values drawn from small sets, populated keys included.
StoreIds == {0, 1}

insert_call(who, id, seed, idx) ==
    /\ Kitties' = insert(Kitties, who, id, Blake2_128(seed, who, idx))
    /\ last' = Call("insert", who, id, 0, seed, idx, "Ok")
    /\ UNCHANGED <<NextKittyId, events>>

NextStore ==
    \E who \in Accounts, id \in StoreIds, env \in Environments :
        insert_call(who, id, env.seed, env.idx)

SpecStore == Init /\ [][NextStore]_vars

\* ------------------------------------------------------------ genome alone
\* Kitty::gender and the combination loop of breed applied on their own to
\* stored genomes, equal parents included (breed itself refuses them).
GenomeEnvs == [seed : {0, 1}, idx : {0, 1, 2}]
\* the functions read no account: the genomes of one account suffice
GenomeAccounts == {1}

\* the loop of breed on the genomes under (who, a) and (who, b); the resulting
\* array is the call's result
combine_call(who, a, b, seed, idx) ==
    /\ kitties(who, a) # None
    /\ kitties(who, b) # None
    /\ LET selector == Blake2_128(seed, who, idx)
           kitty1_dna == kitties(who, a)
           kitty2_dna == kitties(who, b)
       IN  last' = Call("combine", who, a, b, seed, idx,
                        new_dna(selector, kitty1_dna, kitty2_dna))
    /\ UNCHANGED <<Kitties, NextKittyId, events>>

\* Kitty::gender on the genome under (who, id); the gender is the call's result
gender_call(who, id) ==
    /\ kitties(who, id) # None
    /\ last' = Call("gender", who, id, 0, 0, 0, gender(kitties(who, id)))
    /\ UNCHANGED <<Kitties, NextKittyId, events>>

NextGenome ==
    \/ \E who \in GenomeAccounts, id \in StoreIds, env \in GenomeEnvs :
           insert_call(who, id, env.seed, env.idx)
    \/ \E who \in GenomeAccounts, a \in StoreIds, b \in StoreIds, env \in GenomeEnvs :
           combine_call(who, a, b, env.seed, env.idx)
    \/ \E who \in GenomeAccounts, id \in StoreIds : gender_call(who, id)

SpecGenome == Init /\ [][NextGenome]_vars

\* ============================================================ properties
Keys == Accounts \X KittyIds

Populated(map) == {k \in Keys : map[k] # None}

\* bit k of the byte x
Bit(x, k) == (x \div (2 ^ k)) % 2

\* the call recorded in last' was made by a signed caller
SignedCall(op) == last'.op = op /\ last'.who \in Accounts

\* parity of the first byte of the genome stored under (who, id)
Parity0(map, who, id) == map[<<who, id>>][0] % 2

\* C1: a create or breed call either succeeds, adding exactly one new entry
\* to Kitties and increasing NextKittyId by exactly 1, or returns an error and
\* leaves Kitties, NextKittyId and the events exactly as they were.
C1_AllOrNothing ==
    [][ last'.op \in {"create", "breed"} =>
          IF last'.result = "Ok"
          THEN /\ Cardinality(Populated(Kitties') \ Populated(Kitties)) = 1
               /\ \A k \in Populated(Kitties) : Kitties'[k] = Kitties[k]
               /\ NextKittyId' = NextKittyId + 1
          ELSE /\ Kitties' = Kitties
               /\ NextKittyId' = NextKittyId
               /\ events' = events ]_vars

\* a call failed in a state that already holds entities and events
C1_Witness ==
    /\ last.op = "breed"
    /\ last.result = "SameGender"
    /\ NextKittyId = 2
    /\ Len(events) = 2

\* the identifiers issued so far, in order of issue
IssuedIds == [i \in 1..Len(events) |-> events[i].id]

MaxOf(S) == CHOOSE m \in S : \A x \in S : x <= m

\* C2: NextKittyId is one plus the highest identifier ever issued (0 when none
\* was issued), it never decreases, and no identifier is issued twice.
C2_CounterInvariant ==
    /\ [](/\ NextKittyId = IF Len(events) = 0 THEN 0
                           ELSE 1 + MaxOf({IssuedIds[i] : i \in 1..Len(events)})
          /\ \A i, j \in 1..Len(events) : i # j => IssuedIds[i] # IssuedIds[j])
    /\ [][NextKittyId' >= NextKittyId]_vars

\* identifiers were issued to two different owners
C2_Witness ==
    /\ Len(events) = 3
    /\ \E i, j \in 1..Len(events) : events[i].who # events[j].who

\* C3: once a key (owner, id) holds a genome, no later call deletes the key
\* or changes the genome stored under it.
C3_NeverOverwritten ==
    [][ \A k \in Keys : Kitties[k] # None => Kitties'[k] = Kitties[k] ]_vars

\* a breed by the owner of two stored entities has succeeded
C3_Witness ==
    /\ last.op = "breed"
    /\ last.result = "Ok"
    /\ Cardinality(Populated(Kitties)) = 3

\* C4: a successful create by U with NextKittyId = n stores the new genome at
\* (U, n), sets NextKittyId to n + 1 and leaves every other entry unchanged;
\* the first create from the empty state yields one entity, at (U, 0), counter 1.
C4_CreateEffect ==
    [][ (SignedCall("create") /\ last'.result = "Ok") =>
          LET U == last'.who
              n == NextKittyId
          IN  /\ Kitties'[<<U, n>>] = Blake2_128(last'.seed, U, last'.idx)
              /\ Kitties'[<<U, n>>] # None
              /\ NextKittyId' = n + 1
              /\ \A k \in Keys \ {<<U, n>>} : Kitties'[k] = Kitties[k]
              /\ (Populated(Kitties) = {} /\ n = 0) =>
                    (Populated(Kitties') = {<<U, 0>>} /\ NextKittyId' = 1) ]_vars

\* a create succeeded while another owner already held an entity
C4_Witness ==
    /\ last.op = "create"
    /\ last.result = "Ok"
    /\ NextKittyId = 2
    /\ \E k \in Populated(Kitties) : k[1] # last.who

\* C5: when U owns a and b with different genders and NextKittyId = n is below
\* the maximum, breed(a, b) by U succeeds, stores the child at (U, n), sets
\* NextKittyId to n + 1 and leaves the parents and every other entry unchanged.
C5_BreedSucceeds ==
    [][ (/\ SignedCall("breed")
         /\ Kitties[<<last'.who, last'.id1>>] # None
         /\ Kitties[<<last'.who, last'.id2>>] # None
         /\ Parity0(Kitties, last'.who, last'.id1) # Parity0(Kitties, last'.who, last'.id2)
         /\ NextKittyId < U32Max) =>
          LET U == last'.who
              n == NextKittyId
          IN  /\ last'.result = "Ok"
              /\ Kitties[<<U, n>>] = None
              /\ Kitties'[<<U, n>>] # None
              /\ NextKittyId' = n + 1
              /\ \A k \in Keys \ {<<U, n>>} : Kitties'[k] = Kitties[k] ]_vars

\* a breed succeeded with the counter one below the maximum
C5_Witness ==
    /\ last.op = "breed"
    /\ last.result = "Ok"
    /\ NextKittyId = U32Max
    /\ Kitties[<<last.who, U32Max - 1>>] # None

\* C6: breed(a, b) by U fails with InvalidKittyId whenever (U, a) or (U, b) is
\* absent, also when the id exists under another owner; Kitties, NextKittyId
\* and the events are unchanged.
C6_NotFound ==
    [][ (/\ SignedCall("breed")
         /\ \/ Kitties[<<last'.who, last'.id1>>] = None
            \/ Kitties[<<last'.who, last'.id2>>] = None) =>
          /\ last'.result = "InvalidKittyId"
          /\ Kitties' = Kitties
          /\ NextKittyId' = NextKittyId
          /\ events' = events ]_vars

\* a breed failed on ids that both exist, one of them under another owner
C6_Witness ==
    /\ last.op = "breed"
    /\ last.result = "InvalidKittyId"
    /\ Kitties[<<last.who, last.id1>>] # None
    /\ Kitties[<<last.who, last.id2>>] = None
    /\ \E a \in Accounts \ {last.who} : Kitties[<<a, last.id2>>] # None

\* C7: breed(a, b) by U with both entities present and of the same gender
\* fails with SameGender; nothing is stored at the id NextKittyId pointed to
\* and NextKittyId is unchanged.
C7_SameGender ==
    [][ (/\ SignedCall("breed")
         /\ Kitties[<<last'.who, last'.id1>>] # None
         /\ Kitties[<<last'.who, last'.id2>>] # None
         /\ Parity0(Kitties, last'.who, last'.id1) = Parity0(Kitties, last'.who, last'.id2)) =>
          /\ last'.result = "SameGender"
          /\ \A a \in Accounts : Kitties'[<<a, NextKittyId>>] = Kitties[<<a, NextKittyId>>]
          /\ Kitties' = Kitties
          /\ NextKittyId' = NextKittyId ]_vars

\* two different entities of one owner, with different genomes, were refused
C7_Witness ==
    /\ last.op = "breed"
    /\ last.result = "SameGender"
    /\ last.id1 # last.id2
    /\ Kitties[<<last.who, last.id1>>] # Kitties[<<last.who, last.id2>>]

\* the call recorded in last' reaches the identifier reservation
ReservationAttempted ==
    \/ SignedCall("create")
    \/ /\ SignedCall("breed")
       /\ Kitties[<<last'.who, last'.id1>>] # None
       /\ Kitties[<<last'.who, last'.id2>>] # None
       /\ Parity0(Kitties, last'.who, last'.id1) # Parity0(Kitties, last'.who, last'.id2)

\* C8: successive successful reservations issue the ids c, c+1, ... in order
\* (c = 0 in the initial state); a reservation attempted with the counter at
\* the maximum fails with Overflow and leaves the counter at the maximum.
C8_Allocator ==
    /\ [](\A i \in 1..Len(events) : IssuedIds[i] = i - 1)
    /\ [][ /\ last'.result = "Ok" =>
                /\ events' = Append(events, events'[Len(events')])
                /\ events'[Len(events')].id = NextKittyId
                /\ NextKittyId' = NextKittyId + 1
           /\ (NextKittyId = U32Max /\ ReservationAttempted) =>
                /\ last'.result = "Overflow"
                /\ NextKittyId' = U32Max ]_vars

\* a breed of two eligible parents was refused for overflow
C8_Witness ==
    /\ last.op = "breed"
    /\ last.result = "Overflow"
    /\ NextKittyId = U32Max
    /\ Len(events) = U32Max

C10_Combine ==
    (last.op = "breed" /\ last.result = "Ok") =>
        LET child == Kitties[<<last.who, NextKittyId - 1>>]
            genome_a == Kitties[<<last.who, last.id1>>]
            genome_b == Kitties[<<last.who, last.id2>>]
            selector == Blake2_128(last.seed, last.who, last.idx)
        IN  /\ DOMAIN child = 0..15
            /\ \A i \in DOMAIN child :
                 /\ child[i] \in 0..255
                 /\ \A k \in 0..7 :
                      Bit(child[i], k) = IF Bit(selector[i], k) = 1
                                         THEN Bit(genome_a[i], k)
                                         ELSE Bit(genome_b[i], k)

\* a child was bred that differs from both of its parents
C10_Witness ==
    /\ last.op = "breed"
    /\ last.result = "Ok"
    /\ Kitties[<<last.who, NextKittyId - 1>>] # Kitties[<<last.who, last.id1>>]
    /\ Kitties[<<last.who, NextKittyId - 1>>] # Kitties[<<last.who, last.id2>>]
\* C11: if the two parent genomes are equal, the combined genome is that
\* shared genome, whatever the selector.
C11_EqualParents ==
    (/\ last.op = "combine"
     /\ Kitties[<<last.who, last.id1>>] = Kitties[<<last.who, last.id2>>]) =>
        last.result = Kitties[<<last.who, last.id1>>]

\* two keys holding the same genome were combined under a selector whose first
\* byte has both 0 and 1 bits
C11_Witness ==
    /\ last.op = "combine"
    /\ last.id1 # last.id2
    /\ Kitties[<<last.who, last.id1>>] = Kitties[<<last.who, last.id2>>]
    /\ Blake2_128(last.seed, last.who, last.idx)[0] \notin {0, 255}

\* C12: gender is Male when byte 0 of the genome is even and Female when it is
\* odd; it is one of these two values and bytes 1..15 do not influence it.
C12_Gender ==
    last.op = "gender" =>
        LET g == Kitties[<<last.who, last.id1>>]
        IN  /\ last.result \in {"Male", "Female"}
            /\ last.result = IF g[0] % 2 = 0 THEN "Male" ELSE "Female"
            /\ \A i \in 1..15, v \in {0, 1, 254, 255} :
                  gender([g EXCEPT ![i] = v]) = last.result

\* a Female genome was classified while a Male one is stored as well
C12_Witness ==
    /\ last.op = "gender"
    /\ last.result = "Female"
    /\ \E k \in Populated(Kitties) : Kitties[k][0] % 2 = 0
\* the payload hashed by the call recorded in a `last` record
Payload(call) == <<call.seed, call.who, call.idx>>

\* the step is a call that drew randomness (a create or breed that succeeded)
DrawStep ==
    /\ last'.op \in {"create", "breed"}
    /\ last'.result = "Ok"
    /\ NextKittyId' = NextKittyId + 1

\* C13: no two randomness draws are computed from the same payload (random
\* seed, caller, extrinsic index); stated for a draw and the draw before it.
C13_DistinctPayloads ==
    [][ (DrawStep /\ last.op \in {"create", "breed"} /\ last.result = "Ok") =>
          Payload(last') # Payload(last) ]_vars
\* C14: a create by a signed caller fails only through identifier overflow:
\* below the maximum it succeeds, and when it fails the error is Overflow.
C14_CreateFailsOnlyOnOverflow ==
    [][ SignedCall("create") =>
          /\ NextKittyId < U32Max => last'.result = "Ok"
          /\ last'.result # "Ok" => (last'.result = "Overflow" /\ NextKittyId = U32Max) ]_vars

\* a signed create was refused for overflow
C14_Witness ==
    /\ last.op = "create"
    /\ last.who \in Accounts
    /\ last.result = "Overflow"

\* C15: breed checks the parent lookup first, then the genders, then reserves
\* the identifier: the counter moves only when both parents were found and
\* their genders differ, and with the counter at the maximum a missing parent
\* still gives InvalidKittyId, equal genders still SameGender, and only two
\* eligible parents give Overflow.
C15_CheckOrder ==
    [][ SignedCall("breed") =>
          LET U == last'.who
              missing == \/ Kitties[<<U, last'.id1>>] = None
                         \/ Kitties[<<U, last'.id2>>] = None
              same == Parity0(Kitties, U, last'.id1) = Parity0(Kitties, U, last'.id2)
          IN  /\ last'.result = IF missing THEN "InvalidKittyId"
                                ELSE IF same THEN "SameGender"
                                ELSE IF NextKittyId = U32Max THEN "Overflow"
                                ELSE "Ok"
              /\ (missing \/ same) => NextKittyId' = NextKittyId
              /\ NextKittyId' # NextKittyId => (~missing /\ ~same) ]_vars

\* with the counter at the maximum, two present parents of one gender were
\* refused for their gender
C15_Witness ==
    /\ last.op = "breed"
    /\ last.result = "SameGender"
    /\ NextKittyId = U32Max
    /\ last.id1 # last.id2

\* C16: every successful create deposits one KittyCreated and every successful
\* breed one KittyBred carrying the key just written and the genome stored
\* there, failed calls deposit nothing; the number of events equals
\* NextKittyId and every event (owner, id, genome) equals Kitties[(owner, id)].
C16_Events ==
    /\ [](/\ Len(events) = NextKittyId
          /\ \A i \in 1..Len(events) :
                Kitties[<<events[i].who, events[i].id>>] = events[i].kitty)
    /\ [][ last'.op \in {"create", "breed"} =>
             IF last'.result = "Ok"
             THEN /\ Len(events') = Len(events) + 1
                  /\ \A i \in 1..Len(events) : events'[i] = events[i]
                  /\ LET e == events'[Len(events')]
                     IN  /\ e.kind = IF last'.op = "create" THEN "KittyCreated"
                                     ELSE "KittyBred"
                         /\ e.who = last'.who
                         /\ e.id = NextKittyId
                         /\ Kitties[<<e.who, e.id>>] = None
                         /\ Kitties'[<<e.who, e.id>>] = e.kitty
             ELSE events' = events ]_vars

\* both kinds of event were deposited
C16_Witness ==
    /\ \E i \in 1..Len(events) : events[i].kind = "KittyCreated"
    /\ \E i \in 1..Len(events) : events[i].kind = "KittyBred"
    /\ last.result = "Ok"

\* the ids that occur in keys of Kitties
StoredIds == {k[2] : k \in Populated(Kitties)}

\* C17: the ids in keys of Kitties are exactly 0 .. NextKittyId - 1, each under
\* exactly one owner, and the number of stored entities equals NextKittyId.
C17_IdsOfKeys ==
    /\ StoredIds = 0..(NextKittyId - 1)
    /\ \A k1, k2 \in Populated(Kitties) : k1[2] = k2[2] => k1 = k2
    /\ \A k \in Populated(Kitties) : k[2] < NextKittyId
    /\ Cardinality(Populated(Kitties)) = NextKittyId

\* both accounts hold entities and the counter is at its maximum
C17_Witness ==
    /\ NextKittyId = U32Max
    /\ \A a \in Accounts : \E k \in Populated(Kitties) : k[1] = a

\* C18: breed(x, x) never succeeds: InvalidKittyId when (caller, x) is absent,
\* SameGender when it is present; the parents of every successful breed differ
\* in the least-significant bit of byte 0.
C18_SelfBreed ==
    [][ SignedCall("breed") =>
          /\ last'.id1 = last'.id2 =>
                last'.result = IF Kitties[<<last'.who, last'.id1>>] = None
                               THEN "InvalidKittyId" ELSE "SameGender"
          /\ last'.result = "Ok" =>
                /\ last'.id1 # last'.id2
                /\ Bit(Kitties[<<last'.who, last'.id1>>][0], 0)
                     # Bit(Kitties[<<last'.who, last'.id2>>][0], 0) ]_vars

\* an entity was offered as both parents and refused
C18_Witness ==
    /\ last.op = "breed"
    /\ last.who \in Accounts
    /\ last.id1 = last.id2
    /\ Kitties[<<last.who, last.id1>>] # None
    /\ last.result = "SameGender"

\* C19: the child of a successful breed(a, b) has the gender of a when the
\* least-significant bit of selector byte 0 is 1 and the gender of b when it
\* is 0.
C19_ChildGender ==
    (last.op = "breed" /\ last.result = "Ok") =>
        LET child == Kitties[<<last.who, NextKittyId - 1>>]
            genome_a == Kitties[<<last.who, last.id1>>]
            genome_b == Kitties[<<last.who, last.id2>>]
            selector == Blake2_128(last.seed, last.who, last.idx)
        IN  child[0] % 2 = IF selector[0] % 2 = 1 THEN genome_a[0] % 2
                           ELSE genome_b[0] % 2

\* a child took the gender of the second parent
C19_Witness ==
    /\ last.op = "breed"
    /\ last.result = "Ok"
    /\ Blake2_128(last.seed, last.who, last.idx)[0] % 2 = 0
    /\ Kitties[<<last.who, NextKittyId - 1>>][0] % 2
         = Kitties[<<last.who, last.id2>>][0] % 2

\* C20: once NextKittyId is the maximum, every later create and breed fails,
\* Kitties and NextKittyId never change again, and no entity is ever stored
\* under the id equal to the maximum.
C20_Exhausted ==
    /\ [][ NextKittyId = U32Max =>
             /\ last'.result # "Ok"
             /\ Kitties' = Kitties
             /\ NextKittyId' = NextKittyId ]_vars
    /\ [](\A a \in Accounts : Kitties[<<a, U32Max>>] = None)

\* with the counter at the maximum, a breed naming the id equal to the maximum
\* was refused because nothing is stored under it
C20_Witness ==
    /\ NextKittyId = U32Max
    /\ last.op = "breed"
    /\ last.who \in Accounts
    /\ last.id1 = U32Max
    /\ last.result = "InvalidKittyId"
    /\ Cardinality(Populated(Kitties)) = U32Max
====
